---- MODULE Spec2Model ----
(***************************************************************************)
(* Model of the schedule builder of the Study Companion planner            *)
(* (src/Final_Project_Part_I.py, build_schedule and is_free_time) and of   *)
(* its Pomodoro timer (src/Final_Project_Part_II.py, run_pomodoro and      *)
(* _run_interval).                                                         *)
(*                                                                         *)
(* Time.  A datetime is an integer number of ticks; one minute is          *)
(* TicksPerMinute ticks, so that instants that are not on a whole minute   *)
(* (a calendar event ending at hh:mm:30) are representable.  A timedelta   *)
(* of m minutes is m * TicksPerMinute ticks.                               *)
(*                                                                         *)
(* Strings.  A str is the sequence of its code points, so that Python's    *)
(* lexicographic comparison of names can be computed.                      *)
(*                                                                         *)
(* Optional.  None is the empty sequence and a present value d is <<d>>.   *)
(***************************************************************************)
EXTENDS Integers, Sequences, FiniteSets

(***************************************************************************)
(* Bounds of the model.                                                    *)
(***************************************************************************)
TicksPerMinute == 2

MaxTasks == 2

MaxBusy == 2

\* The largest number of cycles of a Pomodoro session.
MaxCycles == 3

(***************************************************************************)
(* Program constants.                                                      *)
(***************************************************************************)
\* work_block_max: int = 50
DefaultWorkBlockMax == 50

\* break_minutes: int = 10
DefaultBreakMinutes == 10

\* current_time += timedelta(minutes=5)
ProbeMinutes == 5

\* datetime.max, the key of an absent deadline: later than every instant the
\* model uses, and itself a legal deadline value.
DatetimeMax == 1000000

\* total_seconds = minutes * 60
SecondsPerMinute == 60

\* step = max(total_seconds // 5, 1)
CountdownUpdates == 5

\* The label of a work interval, "Work".
WorkLabel == <<87, 111, 114, 107>>

\* The label of a break block, "Break".
BreakLabel == <<66, 114, 101, 97, 107>>

\* None
None == <<>>

Minutes(m) == m * TicksPerMinute

(***************************************************************************)
(* Python's comparison of str: code point by code point, a proper prefix   *)
(* is smaller.                                                             *)
(***************************************************************************)
RECURSIVE StrLess(_, _)
StrLess(s, t) ==
    IF t = <<>> THEN FALSE
    ELSE IF s = <<>> THEN TRUE
    ELSE IF Head(s) # Head(t) THEN Head(s) < Head(t)
    ELSE StrLess(Tail(s), Tail(t))

\* Variant of sort_key with the priority ascending.
sort_key_ascending(task) ==
    << task.priority,
       IF task.deadline = None THEN DatetimeMax ELSE task.deadline[1],
       task.name >>

(***************************************************************************)
(* sort_key: (-task.priority, task.deadline or datetime.max, task.name).   *)
(* A datetime is always truthy, so only None is replaced.                  *)
(***************************************************************************)
sort_key(task) ==
    << -task.priority,
       IF task.deadline = None THEN DatetimeMax ELSE task.deadline[1],
       task.name >>

\* Python's tuple comparison k1 < k2 of two sort keys.
KeyLess(k1, k2) ==
    \/ k1[1] < k2[1]
    \/ k1[1] = k2[1] /\ k1[2] < k2[2]
    \/ k1[1] = k2[1] /\ k1[2] = k2[2] /\ StrLess(k1[3], k2[3])

(***************************************************************************)
(* sorted(tasks, key=sort_key): a stable sort.  An element is inserted     *)
(* after every element already placed whose key is not greater.            *)
(***************************************************************************)
RECURSIVE InsertByKey(_, _)
InsertByKey(task, s) ==
    IF s = <<>> THEN <<task>>
    ELSE IF KeyLess(sort_key(task), sort_key(Head(s)))
         THEN <<task>> \o s
         ELSE <<Head(s)>> \o InsertByKey(task, Tail(s))

RECURSIVE sorted(_)
sorted(ts) ==
    IF ts = <<>> THEN <<>>
    ELSE InsertByKey(ts[Len(ts)], sorted(SubSeq(ts, 1, Len(ts) - 1)))

\* Variant of is_free_time that only tests whether the start of the block
\* lies in a busy block.
is_free_time_start_only(start, end, busy) ==
    \A i \in 1..Len(busy) : ~(busy[i][1] <= start /\ start < busy[i][2])

(***************************************************************************)
(* is_free_time(start, end, busy_blocks): no busy block b with             *)
(* start < b_end and end > b_start.                                        *)
(***************************************************************************)
is_free_time(start, end, busy) ==
    \A i \in 1..Len(busy) : ~(start < busy[i][2] /\ end > busy[i][1])

(***************************************************************************)
(* next((b_end for b_start, b_end in busy_blocks                           *)
(*       if b_start <= current_time < b_end), None):                       *)
(* the end of the first busy block of the list that covers the cursor.     *)
(***************************************************************************)
Covering(cur, busy) ==
    {i \in 1..Len(busy) : busy[i][1] <= cur /\ cur < busy[i][2]}

FirstOf(S) == CHOOSE i \in S : \A j \in S : i <= j

\* Variant of conflict_end that yields the start of the covering block.
conflict_end_start(cur, busy) ==
    IF Covering(cur, busy) = {} THEN None
    ELSE <<busy[FirstOf(Covering(cur, busy))][1]>>

\* Variant of conflict_end that takes the first busy block ending after the
\* cursor, whether or not it has started.
conflict_end_first_later(cur, busy) ==
    IF {i \in 1..Len(busy) : cur < busy[i][2]} = {} THEN None
    ELSE <<busy[FirstOf({i \in 1..Len(busy) : cur < busy[i][2]})][2]>>

\* Lines 91-94: the end of the first covering block, or None
conflict_end(cur, busy) ==
    IF Covering(cur, busy) = {} THEN None
    ELSE <<busy[FirstOf(Covering(cur, busy))][2]>>

(***************************************************************************)
(* int(min(a, b, remaining_window)) with a, b whole minutes and            *)
(* remaining_window = ticks / TicksPerMinute: int() truncates toward zero. *)
(***************************************************************************)
Min2(a, b) == IF a <= b THEN a ELSE b

\* Variant of IntTrunc that rounds a part of a minute up.
IntTrunc_round_up(ticks) ==
    IF ticks >= 0 THEN (ticks + TicksPerMinute - 1) \div TicksPerMinute
    ELSE -((-ticks) \div TicksPerMinute)

\* int(): truncation toward zero of ticks / TicksPerMinute
IntTrunc(ticks) ==
    IF ticks >= 0 THEN ticks \div TicksPerMinute
    ELSE -((-ticks) \div TicksPerMinute)

\* Variant of block_length without the task's remaining duration.
block_length_ignore_remaining(wbm, rem, window_ticks) ==
    IntTrunc(Min2(Minutes(wbm), window_ticks))

\* Variant of block_length without work_block_max.
block_length_ignore_max(wbm, rem, window_ticks) ==
    IntTrunc(Min2(Minutes(rem), window_ticks))

\* Variant of block_length that always takes work_block_max.
block_length_always_max(wbm, rem, window_ticks) == wbm

\* Line 83: block_len = int(min(work_block_max, remaining, remaining_window))
block_length(wbm, rem, window_ticks) ==
    IntTrunc(Min2(Min2(Minutes(wbm), Minutes(rem)), window_ticks))

(***************************************************************************)
(* Inputs.  Every call starts at 18:00; the task names are "A", "AB", "B"  *)
(* and "C", pairwise distinct within a call and never "Break".             *)
(***************************************************************************)
StudyStart == 18 * 60 * TicksPerMinute

NameA == <<65>>

NameAB == <<65, 66>>

NameB == <<66>>

NameC == <<67>>

NamePool == <<NameA, NameAB, NameB, NameC>>

Task(name, duration_min, priority, deadline) ==
    [name |-> name, duration_min |-> duration_min,
     priority |-> priority, deadline |-> deadline]

Call(tasks_, total_, wbm_, brk_, busy_) ==
    [tasks |-> tasks_, start_time |-> StudyStart, total_minutes |-> total_,
     work_block_max |-> wbm_, break_minutes |-> brk_, busy_blocks |-> busy_]

\* Sequences over S of length at most n, without repetition.
RECURSIVE SeqsNoRep(_, _)
SeqsNoRep(S, n) ==
    IF n = 0 THEN {<<>>}
    ELSE LET shorter == SeqsNoRep(S, n - 1)
         IN  shorter \cup
             UNION { { Append(s, x) : x \in {y \in S : \A i \in 1..Len(s) : s[i] # y} } :
                     s \in {q \in shorter : Len(q) = n - 1} }

\* Busy intervals (start < end), as offsets from 18:00.
BusyCandidates ==
    { <<StudyStart - Minutes(1), StudyStart + Minutes(1)>>,
      <<StudyStart + Minutes(1), StudyStart + Minutes(2) + 1>>,
      <<StudyStart, StudyStart + Minutes(3)>>,
      <<StudyStart + Minutes(3), StudyStart + Minutes(4)>>,
      <<StudyStart + Minutes(6), StudyStart + Minutes(20)>> }

BusyLists == SeqsNoRep(BusyCandidates, MaxBusy)

(* Packing inputs: the i-th task is named NamePool[i], all of priority 1   *)
(* and without deadline; durations, window, block sizes and busy lists     *)
(* vary.                                                                   *)
PackDurations == {2, 5}

PackTaskLists ==
    UNION { { [i \in 1..n |-> Task(NamePool[i], d[i], 1, None)] :
              d \in [1..n -> PackDurations] } : n \in 0..MaxTasks }

PackWindows == {-1, 0, 4, 7, 12}

PackingCalls ==
    { Call(ts, w, wbm, brk, busy) :
        ts \in PackTaskLists, w \in PackWindows, wbm \in {2, 3},
        brk \in {1, 2}, busy \in BusyLists }

(* Ordering inputs: tasks of two minutes whose names, priorities and       *)
(* deadlines vary (a deadline is absent, 19:00 or datetime.max); the tasks *)
(* of a call have distinct names.                                          *)
OrderDeadlines == {None, <<StudyStart + Minutes(60)>>, <<DatetimeMax>>}

OrderTasks ==
    { Task(NamePool[i], 2, p, dl) :
        i \in 1..3, p \in {1, 2}, dl \in OrderDeadlines }

OrderTaskLists ==
    { ts \in SeqsNoRep(OrderTasks, MaxTasks) :
        \A i, j \in 1..Len(ts) : i # j => ts[i].name # ts[j].name }

OrderingCalls ==
    { Call(ts, 12, 2, 1, busy) :
        ts \in OrderTaskLists,
        busy \in {<<>>, << <<StudyStart + Minutes(3), StudyStart + Minutes(4)>> >>} }

(* The scenarios of the specification.                                     *)
Scenario1Call ==
    Call(<< Task(NameA, 90, 5, None), Task(NameB, 60, 3, None),
            Task(NameC, 45, 2, None) >>,
         180, 50, 10, <<>>)

Scenario2Call ==
    Call(<< Task(NameA, 30, 1, None) >>, 30, 50, DefaultBreakMinutes, <<>>)

Scenario3Windows == {5, 10, 45, 60, 65, 70, 75, 80, 180}

Scenario3Calls ==
    { Call(<< Task(NameA, 60, 1, None) >>, w,
           DefaultWorkBlockMax, DefaultBreakMinutes,
           << <<StudyStart, StudyStart + Minutes(10)>> >>) :
        w \in Scenario3Windows }

(* Permutation inputs: tasks that may share a name, so that two tasks of a  *)
(* call can differ in their deadline only; a deadline is absent or         *)
(* datetime.max.  The window is empty or twelve minutes, and the busy list *)
(* is empty, clips the first block or covers the start and ends off the   *)
(* minute.                                                                 *)
PermTasks ==
    { Task(n, d, p, dl) :
        n \in {NameA, NameB}, d \in PackDurations, p \in {1, 2},
        dl \in {None, <<DatetimeMax>>} }

PermTaskLists ==
    UNION { [1..n -> PermTasks] : n \in 1..MaxTasks }

PermBusyLists ==
    { <<>>,
      << <<StudyStart + Minutes(1), StudyStart + Minutes(2) + 1>> >>,
      << <<StudyStart, StudyStart + Minutes(2) + 1>> >> }

PermCalls ==
    { Call(ts, w, 2, 1, busy) :
        ts \in PermTaskLists, w \in {0, 12}, busy \in PermBusyLists }

Calls ==
    PackingCalls \cup OrderingCalls \cup Scenario3Calls
        \cup {Scenario1Call, Scenario2Call}

(***************************************************************************)
(* State: the arguments of one call of build_schedule, its locals, and the *)
(* position of the call.                                                   *)
(*   pc = "start" : before line 59                                         *)
(*   pc = "for"   : at the head of the for loop (line 75)                  *)
(*   pc = "while" : at the head of the while loop (line 78)                *)
(*   pc = "done"  : returned; the value returned is schedule               *)
(***************************************************************************)
VARIABLES tasks, start_time, total_minutes, work_block_max, break_minutes,
          busy_blocks, tasks_sorted, schedule, current_time, window_end,
          task_index, remaining, pc

(***************************************************************************)
(* State of one run of run_pomodoro (src/Final_Project_Part_II.py): its    *)
(* argument config, its locals, the interval in progress in _run_interval, *)
(* what it has printed about intervals, and its position.                  *)
(*   cycle              : the loop variable i of line 111                  *)
(*   interval_label     : label of the interval in progress, or <<>>       *)
(*   interval_remaining : remaining of _run_interval (line 65)             *)
(*   returned           : the value _run_interval has returned and the     *)
(*                        caller has not yet added                         *)
(*   output             : the interval headers (line 67), the "finished"   *)
(*                        lines (line 84) and the "interrupted" line (122) *)
(*                        printed so far                                   *)
(*   timer_pc = "idle"   : no run                                          *)
(*   timer_pc = "start"  : before line 105                                 *)
(*   timer_pc = "for"    : at the head of the for loop (line 111)          *)
(*   timer_pc = "sleep"  : in the while loop of _run_interval (line 73)    *)
(*   timer_pc = "add"    : _run_interval has returned (line 114 or 117)    *)
(*   timer_pc = "break"  : at line 116                                     *)
(*   timer_pc = "count"  : at line 119                                     *)
(*   timer_pc = "done"   : past the try statement; the result is built     *)
(*                         from cycles_completed, total_work, total_break  *)
(***************************************************************************)
VARIABLES config, total_work, total_break, cycles_completed, cycle,
          interval_label, interval_remaining, returned, output, timer_pc

timer == <<config, total_work, total_break, cycles_completed, cycle,
           interval_label, interval_remaining, returned, output, timer_pc>>

\* No run of run_pomodoro: the state of the timer while build_schedule runs.
NoTimer ==
    /\ config = [work_minutes |-> 0, break_minutes |-> 0, cycles |-> 0]
    /\ total_work = 0
    /\ total_break = 0
    /\ cycles_completed = 0
    /\ cycle = 0
    /\ interval_label = <<>>
    /\ interval_remaining = 0
    /\ returned = 0
    /\ output = <<>>
    /\ timer_pc = "idle"

args == <<tasks, start_time, total_minutes, work_block_max, break_minutes,
          busy_blocks>>

vars == <<tasks, start_time, total_minutes, work_block_max, break_minutes,
          busy_blocks, tasks_sorted, schedule, current_time, window_end,
          task_index, remaining, pc, timer>>

Init ==
    /\ \E c \in Calls :
          /\ tasks = c.tasks
          /\ start_time = c.start_time
          /\ total_minutes = c.total_minutes
          /\ work_block_max = c.work_block_max
          /\ break_minutes = c.break_minutes
          /\ busy_blocks = c.busy_blocks
    /\ tasks_sorted = <<>>
    /\ schedule = <<>>
    /\ current_time = start_time
    /\ window_end = start_time
    /\ task_index = 0
    /\ remaining = 0
    /\ pc = "start"
    /\ NoTimer

\* Variant of nothing_to_schedule that only tests the task list.
nothing_to_schedule_tasks_only(total, ts) == ts = <<>>

\* Line 62: total_minutes <= 0 or not tasks
nothing_to_schedule(total, ts) == total <= 0 \/ ts = <<>>

\* Lines 62-63: if total_minutes <= 0 or not tasks: return []
ReturnEmpty ==
    /\ pc = "start"
    /\ nothing_to_schedule(total_minutes, tasks)
    /\ pc' = "done"
    /\ UNCHANGED <<timer, args, tasks_sorted, schedule, current_time,
                   window_end, task_index, remaining>>

\* Variant of Setup that sorts the caller's list in place (tasks.sort).
Setup_sorts_in_place ==
    /\ pc = "start"
    /\ ~nothing_to_schedule(total_minutes, tasks)
    /\ tasks' = sorted(tasks)
    /\ tasks_sorted' = sorted(tasks)
    /\ schedule' = <<>>
    /\ current_time' = start_time
    /\ window_end' = start_time + Minutes(total_minutes)
    /\ pc' = "for"
    /\ UNCHANGED <<timer, start_time, total_minutes, work_block_max,
                   break_minutes, busy_blocks, task_index, remaining>>

\* Lines 65-73: sort the tasks, empty schedule, cursor at the start.
Setup ==
    /\ pc = "start"
    /\ ~nothing_to_schedule(total_minutes, tasks)
    /\ tasks_sorted' = sorted(tasks)
    /\ schedule' = <<>>
    /\ current_time' = start_time
    /\ window_end' = start_time + Minutes(total_minutes)
    /\ pc' = "for"
    /\ UNCHANGED <<timer, args, task_index, remaining>>

\* Lines 75-76: the next task of tasks_sorted; remaining = task.duration_min
ForNext ==
    /\ pc = "for"
    /\ task_index < Len(tasks_sorted)
    /\ task_index' = task_index + 1
    /\ remaining' = tasks_sorted[task_index + 1].duration_min
    /\ pc' = "while"
    /\ UNCHANGED <<timer, args, tasks_sorted, schedule, current_time,
                   window_end>>

\* Line 112: the for loop is exhausted, return schedule
ForEnd ==
    /\ pc = "for"
    /\ task_index = Len(tasks_sorted)
    /\ pc' = "done"
    /\ UNCHANGED <<timer, args, tasks_sorted, schedule, current_time,
                   window_end, task_index, remaining>>

\* Line 78: while remaining > 0 and current_time < window_end
WhileCond == remaining > 0 /\ current_time < window_end

WhileExit ==
    /\ pc = "while"
    /\ ~WhileCond
    /\ pc' = "for"
    /\ UNCHANGED <<timer, args, tasks_sorted, schedule, current_time,
                   window_end, task_index, remaining>>

\* Lines 79, 83: the length of the tentative block, in minutes
remaining_window == window_end - current_time

block_len == block_length(work_block_max, remaining, remaining_window)

work_end == current_time + Minutes(block_len)

\* Lines 80-81 and 84-85: return schedule
ReturnSchedule ==
    /\ pc = "while"
    /\ WhileCond
    /\ remaining_window <= 0 \/ block_len <= 0
    /\ pc' = "done"
    /\ UNCHANGED <<timer, args, tasks_sorted, schedule, current_time,
                   window_end, task_index, remaining>>

Placeable ==
    /\ pc = "while"
    /\ WhileCond
    /\ ~(remaining_window <= 0 \/ block_len <= 0)

\* Lines 90-96, 99: the tentative block is not free and a busy block covers
\* the cursor: the cursor jumps to the end of the first such block.
ConflictJump ==
    /\ Placeable
    /\ ~is_free_time(current_time, work_end, busy_blocks)
    /\ conflict_end(current_time, busy_blocks) # None
    /\ current_time' = conflict_end(current_time, busy_blocks)[1]
    /\ UNCHANGED <<timer, args, tasks_sorted, schedule, window_end, task_index,
                   remaining, pc>>

\* Variant of ConflictProbe that leaves the while loop (break instead of
\* continue), so that the next task is taken.
ConflictProbe_gives_up ==
    /\ Placeable
    /\ ~is_free_time(current_time, work_end, busy_blocks)
    /\ conflict_end(current_time, busy_blocks) = None
    /\ current_time' = current_time + Minutes(ProbeMinutes)
    /\ pc' = "for"
    /\ UNCHANGED <<timer, args, tasks_sorted, schedule, window_end, task_index,
                   remaining>>

\* Lines 90-94, 97-99: the tentative block is not free and no busy block
\* covers the cursor: the cursor moves on by five minutes.
ConflictProbe ==
    /\ Placeable
    /\ ~is_free_time(current_time, work_end, busy_blocks)
    /\ conflict_end(current_time, busy_blocks) = None
    /\ current_time' = current_time + Minutes(ProbeMinutes)
    /\ UNCHANGED <<timer, args, tasks_sorted, schedule, window_end, task_index,
                   remaining, pc>>

\* Line 101: the work block (work_start, work_end, task.name)
work_block == <<current_time, work_end, tasks_sorted[task_index].name>>

\* Variant of break_follows without the test of the remaining window.
break_follows_any_window(rem, window_ticks) == rem > 0

\* Variant of break_follows without the test of the remaining duration.
break_follows_always(rem, window_ticks) ==
    window_ticks > Minutes(break_minutes)

\* Variant of break_follows that also accepts a window of exactly
\* break_minutes.
break_follows_nonstrict(rem, window_ticks) ==
    rem > 0 /\ window_ticks >= Minutes(break_minutes)

\* Variant of break_follows that appends the break only where it keeps
\* clear of the busy blocks.
break_follows_if_free(rem, window_ticks) ==
    /\ rem > 0
    /\ window_ticks > Minutes(break_minutes)
    /\ is_free_time(work_end, work_end + Minutes(break_minutes), busy_blocks)

\* Line 106: if remaining > 0 and remaining_window > break_minutes
break_follows(rem, window_ticks) ==
    rem > 0 /\ window_ticks > Minutes(break_minutes)

\* Lines 107-109: the break block (break_start, break_end, "Break")
break_block(cur) == <<cur, cur + Minutes(break_minutes), BreakLabel>>

\* Variant of cursor_after_commit that leaves the cursor at the end of the
\* work block when a break was appended.
cursor_after_commit_stays(wend, has_break) == wend

\* Variant of cursor_after_commit that moves the cursor by break_minutes
\* whether or not a break was appended.
cursor_after_commit_skips(wend, has_break) == break_block(wend)[2]

\* Lines 102 and 110: the cursor after the commit
cursor_after_commit(wend, has_break) ==
    IF has_break THEN break_block(wend)[2] ELSE wend

\* Lines 101-110: commit the work block and, when it fits, a break.
Commit ==
    /\ Placeable
    /\ is_free_time(current_time, work_end, busy_blocks)
    /\ LET has_break ==
               break_follows(remaining - block_len, window_end - work_end)
       IN  /\ schedule' =
                 IF has_break
                 THEN schedule \o <<work_block, break_block(work_end)>>
                 ELSE Append(schedule, work_block)
           /\ current_time' = cursor_after_commit(work_end, has_break)
    /\ remaining' = remaining - block_len
    /\ UNCHANGED <<timer, args, tasks_sorted, window_end, task_index, pc>>

Next ==
    \/ ReturnEmpty
    \/ Setup
    \/ ForNext
    \/ ForEnd
    \/ WhileExit
    \/ ReturnSchedule
    \/ ConflictJump
    \/ ConflictProbe
    \/ Commit

(***************************************************************************)
(* build_schedule as a function of the task list, for the other arguments  *)
(* of the call in progress: the value the call returns for the list ts.    *)
(* allocate is the for loop (line 75) with its while loop (line 78) from   *)
(* the i-th task of the sorted list on, with rem minutes of that task      *)
(* left, the cursor at cur and sch scheduled so far.                       *)
(***************************************************************************)
RECURSIVE allocate(_, _, _, _, _)
allocate(ts, i, rem, cur, sch) ==
    LET wend == start_time + Minutes(total_minutes)
        len == block_length(work_block_max, rem, wend - cur)
        wstop == cur + Minutes(len)
        jump == conflict_end(cur, busy_blocks)
        has_break == break_follows(rem - len, wend - wstop)
        work == <<cur, wstop, ts[i].name>>
    IN  IF ~(rem > 0 /\ cur < wend)
        THEN IF i = Len(ts)
             THEN sch
             ELSE allocate(ts, i + 1, ts[i + 1].duration_min, cur, sch)
        ELSE IF wend - cur <= 0 \/ len <= 0
        THEN sch
        ELSE IF ~is_free_time(cur, wstop, busy_blocks)
        THEN allocate(ts, i, rem,
                      IF jump # None THEN jump[1]
                      ELSE cur + Minutes(ProbeMinutes),
                      sch)
        ELSE allocate(ts, i, rem - len,
                      cursor_after_commit(wstop, has_break),
                      IF has_break
                      THEN sch \o <<work, break_block(wstop)>>
                      ELSE Append(sch, work))

build_schedule(ts) ==
    IF nothing_to_schedule(total_minutes, ts)
    THEN <<>>
    ELSE allocate(sorted(ts), 0, 0, start_time, <<>>)

\* Calls whose tasks may share a name.
PermInit ==
    /\ \E c \in PermCalls :
          /\ tasks = c.tasks
          /\ start_time = c.start_time
          /\ total_minutes = c.total_minutes
          /\ work_block_max = c.work_block_max
          /\ break_minutes = c.break_minutes
          /\ busy_blocks = c.busy_blocks
    /\ tasks_sorted = <<>>
    /\ schedule = <<>>
    /\ current_time = start_time
    /\ window_end = start_time
    /\ task_index = 0
    /\ remaining = 0
    /\ pc = "start"
    /\ NoTimer

PermSpec == PermInit /\ [][Next]_vars

Spec == Init /\ [][Next]_vars

\* build_schedule is sequential code: a step that can be taken is taken.
FairSpec == Spec /\ WF_vars(Next)

(***************************************************************************)
(* run_pomodoro and _run_interval (src/Final_Project_Part_II.py).  The     *)
(* countdown lines of _run_interval and the wall-clock fields started_at   *)
(* and finished_at of the result are not part of the state.  A             *)
(* KeyboardInterrupt may arrive at any point of the try statement.         *)
(***************************************************************************)
planner == <<args, tasks_sorted, schedule, current_time, window_end,
             task_index, remaining, pc>>

\* No call of build_schedule: the state of the planner while the timer runs.
NoCall ==
    /\ tasks = <<>>
    /\ start_time = StudyStart
    /\ total_minutes = 0
    /\ work_block_max = DefaultWorkBlockMax
    /\ break_minutes = DefaultBreakMinutes
    /\ busy_blocks = <<>>
    /\ tasks_sorted = <<>>
    /\ schedule = <<>>
    /\ current_time = StudyStart
    /\ window_end = StudyStart
    /\ task_index = 0
    /\ remaining = 0
    /\ pc = "idle"

TimerMinutes == {0, 1, 2}

TimerConfigs ==
    [work_minutes : TimerMinutes, break_minutes : TimerMinutes,
     cycles : 0..MaxCycles]

Header(l) == [kind |-> "header", label |-> l]

Finished(l) == [kind |-> "finished", label |-> l]

Interrupted == [kind |-> "interrupted", label |-> <<>>]

TimerInit ==
    /\ NoCall
    /\ config \in TimerConfigs
    /\ total_work = 0
    /\ total_break = 0
    /\ cycles_completed = 0
    /\ cycle = 0
    /\ interval_label = <<>>
    /\ interval_remaining = 0
    /\ returned = 0
    /\ output = <<>>
    /\ timer_pc = "start"

\* Lines 105-108: total_work = total_break = cycles_completed = 0
TimerBegin ==
    /\ timer_pc = "start"
    /\ total_work' = 0
    /\ total_break' = 0
    /\ cycles_completed' = 0
    /\ timer_pc' = "for"
    /\ UNCHANGED <<planner, config, cycle, interval_label,
                   interval_remaining, returned, output>>

\* Line 64: total_seconds = minutes * 60
total_seconds(minutes) == minutes * SecondsPerMinute

\* Line 70: step = max(total_seconds // 5, 1)
step(minutes) ==
    IF total_seconds(minutes) \div CountdownUpdates >= 1
    THEN total_seconds(minutes) \div CountdownUpdates
    ELSE 1

\* The argument minutes of the interval in progress
interval_minutes ==
    IF interval_label = WorkLabel
    THEN config.work_minutes
    ELSE config.break_minutes

\* Lines 61-71: _run_interval(l, minutes) up to its while loop; it returns
\* 0 at once when minutes <= 0.
EnterInterval(l, minutes) ==
    /\ interval_label' = l
    /\ IF minutes <= 0
       THEN /\ returned' = 0
            /\ timer_pc' = "add"
            /\ UNCHANGED <<interval_remaining, output>>
       ELSE /\ interval_remaining' = total_seconds(minutes)
            /\ output' = Append(output, Header(l))
            /\ timer_pc' = "sleep"
            /\ UNCHANGED returned

\* Lines 111-114: the next cycle starts with its work interval
TimerForNext ==
    /\ timer_pc = "for"
    /\ cycle < config.cycles
    /\ cycle' = cycle + 1
    /\ EnterInterval(WorkLabel, config.work_minutes)
    /\ UNCHANGED <<planner, config, total_work, total_break,
                   cycles_completed>>

\* Line 111: range(1, config.cycles + 1) is exhausted
TimerForEnd ==
    /\ timer_pc = "for"
    /\ cycle >= config.cycles
    /\ timer_pc' = "done"
    /\ UNCHANGED <<planner, config, total_work, total_break,
                   cycles_completed, cycle, interval_label,
                   interval_remaining, returned, output>>

\* Lines 73-77: one pass of the while loop of _run_interval
Sleep ==
    /\ timer_pc = "sleep"
    /\ interval_remaining > 0
    /\ interval_remaining' =
          IF interval_remaining - step(interval_minutes) < 0
          THEN 0
          ELSE interval_remaining - step(interval_minutes)
    /\ UNCHANGED <<planner, config, total_work, total_break,
                   cycles_completed, cycle, interval_label, returned,
                   output, timer_pc>>

\* Lines 84-85: the interval is over, _run_interval returns total_seconds
IntervalFinished ==
    /\ timer_pc = "sleep"
    /\ interval_remaining <= 0
    /\ output' = Append(output, Finished(interval_label))
    /\ returned' = total_seconds(interval_minutes)
    /\ timer_pc' = "add"
    /\ UNCHANGED <<planner, config, total_work, total_break,
                   cycles_completed, cycle, interval_label,
                   interval_remaining>>

\* Lines 114 and 117: total_work += ..., total_break += ...
AddSeconds ==
    /\ timer_pc = "add"
    /\ IF interval_label = WorkLabel
       THEN /\ total_work' = total_work + returned
            /\ timer_pc' = "break"
            /\ UNCHANGED total_break
       ELSE /\ total_break' = total_break + returned
            /\ timer_pc' = "count"
            /\ UNCHANGED total_work
    /\ interval_label' = <<>>
    /\ UNCHANGED <<planner, config, cycles_completed, cycle,
                   interval_remaining, returned, output>>

\* Variant of break_due with a break after the last cycle too.
break_due_every_cycle(i, cfg) == cfg.break_minutes > 0

\* Line 116: if i < config.cycles and config.break_minutes > 0
break_due(i, cfg) == i < cfg.cycles /\ cfg.break_minutes > 0

\* Lines 116-117: the break interval of the cycle starts
TakeBreak ==
    /\ timer_pc = "break"
    /\ break_due(cycle, config)
    /\ EnterInterval(BreakLabel, config.break_minutes)
    /\ UNCHANGED <<planner, config, total_work, total_break,
                   cycles_completed, cycle>>

\* Line 116: no break for this cycle
SkipBreak ==
    /\ timer_pc = "break"
    /\ ~break_due(cycle, config)
    /\ timer_pc' = "count"
    /\ UNCHANGED <<planner, config, total_work, total_break,
                   cycles_completed, cycle, interval_label,
                   interval_remaining, returned, output>>

\* Line 119: cycles_completed += 1
CountCycle ==
    /\ timer_pc = "count"
    /\ cycles_completed' = cycles_completed + 1
    /\ timer_pc' = "for"
    /\ UNCHANGED <<planner, config, total_work, total_break, cycle,
                   interval_label, interval_remaining, returned, output>>

\* Lines 121-122: KeyboardInterrupt anywhere in the try statement
KeyboardInterrupt ==
    /\ timer_pc \in {"for", "sleep", "add", "break", "count"}
    /\ output' = Append(output, Interrupted)
    /\ timer_pc' = "done"
    /\ UNCHANGED <<planner, config, total_work, total_break,
                   cycles_completed, cycle, interval_label,
                   interval_remaining, returned>>

TimerNext ==
    \/ TimerBegin
    \/ TimerForNext
    \/ TimerForEnd
    \/ Sleep
    \/ IntervalFinished
    \/ AddSeconds
    \/ TakeBreak
    \/ SkipBreak
    \/ CountCycle
    \/ KeyboardInterrupt

TimerSpec == TimerInit /\ [][TimerNext]_vars

(***************************************************************************)
(* Vocabulary of the properties.                                           *)
(***************************************************************************)
Done == pc = "done"

IsCall(c) ==
    /\ tasks = c.tasks
    /\ start_time = c.start_time
    /\ total_minutes = c.total_minutes
    /\ work_block_max = c.work_block_max
    /\ break_minutes = c.break_minutes
    /\ busy_blocks = c.busy_blocks

IsBreak(b) == b[3] = BreakLabel

IsWork(b) == b[3] # BreakLabel

Intersect(s1, e1, s2, e2) == s1 < e2 /\ e1 > s2

\* The positions of the work blocks labelled with a name.
BlocksOf(name) == {i \in 1..Len(schedule) : schedule[i][3] = name}

RECURSIVE TicksOf(_)
TicksOf(S) ==
    IF S = {} THEN 0
    ELSE LET i == CHOOSE j \in S : TRUE
         IN  (schedule[i][2] - schedule[i][1]) + TicksOf(S \ {i})

TaskSet == {tasks[i] : i \in 1..Len(tasks)}

(***************************************************************************)
(* C1.  The blocks of the schedule are in order: each block starts no      *)
(* earlier than the block before it ends, and no two distinct blocks       *)
(* (work or Break) intersect.                                              *)
(***************************************************************************)
C1_NoOverlap ==
    /\ \A i \in 1..(Len(schedule) - 1) :
          /\ schedule[i][2] <= schedule[i + 1][1]
          /\ schedule[i][1] <= schedule[i + 1][1]
    /\ \A i, j \in 1..Len(schedule) :
          i # j => ~Intersect(schedule[i][1], schedule[i][2],
                              schedule[j][1], schedule[j][2])

\* A returned schedule with a break, a later work block, and a gap left by
\* a busy interval.
C1_Witness ==
    /\ Done
    /\ busy_blocks # <<>>
    /\ \E i \in 1..(Len(schedule) - 2) :
          /\ IsBreak(schedule[i + 1])
          /\ IsWork(schedule[i + 2])
    /\ \E i \in 1..(Len(schedule) - 1) : schedule[i][2] < schedule[i + 1][1]

(***************************************************************************)
(* C2.  No work block intersects a busy interval                           *)
(* (block.start < interval.end and block.end > interval.start).            *)
(***************************************************************************)
C2_BusyRespecting ==
    \A i \in 1..Len(schedule) : \A k \in 1..Len(busy_blocks) :
        IsWork(schedule[i]) =>
            ~Intersect(schedule[i][1], schedule[i][2],
                       busy_blocks[k][1], busy_blocks[k][2])

\* A returned schedule around two overlapping busy intervals, with a work
\* block that starts exactly where the later of them ends.
C2_Witness ==
    /\ Done
    /\ \E k, l \in 1..Len(busy_blocks) :
          /\ k # l
          /\ Intersect(busy_blocks[k][1], busy_blocks[k][2],
                       busy_blocks[l][1], busy_blocks[l][2])
          /\ busy_blocks[k][2] < busy_blocks[l][2]
          /\ \E i \in 1..Len(schedule) :
                IsWork(schedule[i]) /\ schedule[i][1] = busy_blocks[l][2]

(***************************************************************************)
(* C3.  Every block, work or Break, lies inside the window                 *)
(* [start_time, start_time + total_minutes].                               *)
(***************************************************************************)
C3_WindowBound ==
    \A i \in 1..Len(schedule) :
        /\ start_time <= schedule[i][1]
        /\ schedule[i][2] <= start_time + Minutes(total_minutes)

\* A returned schedule whose first block was delayed by a busy interval and
\* whose last block ends exactly at the end of the window.
C3_Witness ==
    /\ Done
    /\ schedule # <<>>
    /\ schedule[1][1] > start_time
    /\ schedule[Len(schedule)][2] = start_time + Minutes(total_minutes)
    /\ \E i \in 1..Len(schedule) : IsBreak(schedule[i])

(***************************************************************************)
(* C4.  The work blocks of a task never sum to more than the task's        *)
(* declared duration.                                                      *)
(***************************************************************************)
C4_Capacity ==
    \A t \in TaskSet : TicksOf(BlocksOf(t.name)) <= Minutes(t.duration_min)

\* A returned schedule in which one task is complete in several blocks and
\* another task is only partly scheduled.
C4_Witness ==
    /\ Done
    /\ \E t \in TaskSet :
          /\ Cardinality(BlocksOf(t.name)) >= 2
          /\ TicksOf(BlocksOf(t.name)) = Minutes(t.duration_min)
    /\ \E t \in TaskSet :
          /\ BlocksOf(t.name) # {}
          /\ TicksOf(BlocksOf(t.name)) < Minutes(t.duration_min)

(***************************************************************************)
(* C5.  With no busy intervals, when task A has strictly higher priority   *)
(* than task B and both have a work block, A's first block starts no later *)
(* than B's first block.                                                   *)
(***************************************************************************)
FirstStart(name) ==
    schedule[CHOOSE i \in BlocksOf(name) : \A j \in BlocksOf(name) : i <= j][1]

C5_PriorityOrdering ==
    busy_blocks = <<>> =>
        \A a, b \in TaskSet :
            (a.priority > b.priority /\ BlocksOf(a.name) # {}
                                     /\ BlocksOf(b.name) # {})
                => FirstStart(a.name) <= FirstStart(b.name)

\* A returned schedule without busy intervals where the task of higher
\* priority comes second in the input, has the later name, and both tasks
\* have blocks.
C5_Witness ==
    /\ Done
    /\ busy_blocks = <<>>
    /\ Len(tasks) = 2
    /\ tasks[2].priority > tasks[1].priority
    /\ StrLess(tasks[1].name, tasks[2].name)
    /\ BlocksOf(tasks[1].name) # {}
    /\ BlocksOf(tasks[2].name) # {}

(***************************************************************************)
(* C6.  build_schedule terminates: every iteration of the allocation loop  *)
(* either returns or strictly advances the cursor - a committed block of   *)
(* at least one minute, a jump to the end of a covering busy interval, or  *)
(* the five minute probe - and the call eventually returns.                *)
(***************************************************************************)
C6_IterationAdvances ==
    /\ ReturnSchedule => pc' = "done"
    /\ Commit => current_time' >= current_time + Minutes(1)
    /\ ConflictJump => current_time' > current_time
    /\ ConflictProbe => current_time' = current_time + Minutes(ProbeMinutes)

C6_Termination == [][C6_IterationAdvances]_vars /\ <>Done

\* The call has returned with the task unfinished because less than one
\* minute of the window was left after a busy interval.
C6_Witness ==
    /\ Done
    /\ remaining > 0
    /\ busy_blocks # <<>>
    /\ 0 < window_end - current_time
    /\ window_end - current_time < Minutes(1)

(***************************************************************************)
(* C7.  Scenario 1: tasks A(90, priority 5), B(60, 3), C(45, 2), start     *)
(* 18:00, window 180, work_block_max 50, break 10, no busy intervals.      *)
(***************************************************************************)
Blk(from, to, label) ==
    <<StudyStart + Minutes(from), StudyStart + Minutes(to), label>>

\* C7 as stated: a Break follows A's last block and C receives no block.
C7_Scenario1AsClaimed ==
    (Done /\ IsCall(Scenario1Call)) =>
        schedule = << Blk(0, 50, NameA), Blk(50, 60, BreakLabel),
                      Blk(60, 100, NameA), Blk(100, 110, BreakLabel),
                      Blk(110, 160, NameB), Blk(160, 170, BreakLabel),
                      Blk(170, 180, NameB) >>

\* C7 as amended: the result is A 18:00-18:50, Break 18:50-19:00,
\* A 19:00-19:40, B 19:40-20:30, Break 20:30-20:40, B 20:40-20:50,
\* C 20:50-21:00; no Break follows A's last block and C receives the last
\* ten minutes of the window.
C7_Scenario1 ==
    (Done /\ IsCall(Scenario1Call)) =>
        schedule = << Blk(0, 50, NameA), Blk(50, 60, BreakLabel),
                      Blk(60, 100, NameA), Blk(100, 150, NameB),
                      Blk(150, 160, BreakLabel), Blk(160, 170, NameB),
                      Blk(170, 180, NameC) >>

\* The call of scenario 1 has returned.
C7_Witness == Done /\ IsCall(Scenario1Call) /\ Len(schedule) = 7

(***************************************************************************)
(* C8.  Scenario 3: one task of 60 minutes, start 18:00, busy interval     *)
(* [18:00, 18:10), work_block_max and break_minutes at their defaults,     *)
(* for each window of Scenario3Windows.                                    *)
(***************************************************************************)
IsScenario3 == \E c \in Scenario3Calls : IsCall(c)

\* C8 as stated: the one work block 18:10-19:10, shortened by the window.
C8_Scenario3AsClaimed ==
    (Done /\ IsScenario3) =>
        schedule = IF total_minutes <= 10 THEN <<>>
                   ELSE << Blk(10, Min2(70, total_minutes), NameA) >>

\* C8 as amended: the cursor jumps to 18:10 and the task is scheduled in
\* blocks of at most 50 minutes: work 18:10-19:00, Break 19:00-19:10, work
\* 19:10-19:20 when the window is at least 80 minutes; a shorter window cuts
\* the sequence at its end, and when at most 10 minutes are left after
\* 19:00 the second work block follows at 19:00 without a Break.
Scenario3Expected(w) ==
    IF w <= 10 THEN <<>>
    ELSE IF w <= 60 THEN << Blk(10, w, NameA) >>
    ELSE IF w <= 70 THEN << Blk(10, 60, NameA), Blk(60, w, NameA) >>
    ELSE << Blk(10, 60, NameA), Blk(60, 70, BreakLabel),
            Blk(70, Min2(80, w), NameA) >>

C8_Scenario3 ==
    (Done /\ IsScenario3) => schedule = Scenario3Expected(total_minutes)

\* The call of scenario 3 has returned for a window that holds the whole
\* task: the first block starts at 18:10.
C8_Witness ==
    /\ Done
    /\ IsScenario3
    /\ total_minutes = 180
    /\ schedule # <<>>
    /\ schedule[1][1] = StudyStart + Minutes(10)

(***************************************************************************)
(* C9.  Every Break block of a returned schedule is followed by a work     *)
(* block of the same task as the work block before it: the result never    *)
(* ends with a Break and no Break separates two tasks.                     *)
(***************************************************************************)
C9_BreakBetweenBlocksOfOneTask ==
    Done =>
        \A i \in 1..Len(schedule) :
            IsBreak(schedule[i]) =>
                /\ 1 < i
                /\ i < Len(schedule)
                /\ IsWork(schedule[i - 1])
                /\ IsWork(schedule[i + 1])
                /\ schedule[i + 1][3] = schedule[i - 1][3]

(***************************************************************************)
(* C10.  Tasks are processed in the order of the key (priority descending, *)
(* deadline ascending with an absent deadline after every present one,     *)
(* name ascending): of two tasks, the smaller under this key has all of    *)
(* its work blocks before the other's.                                     *)
(***************************************************************************)
DeadlineBefore(t, u) ==
    /\ t.deadline # None
    /\ u.deadline = None \/ t.deadline[1] < u.deadline[1]

StatedKeyLess(t, u) ==
    \/ t.priority > u.priority
    \/ t.priority = u.priority /\ DeadlineBefore(t, u)
    \/ /\ t.priority = u.priority
       /\ t.deadline = u.deadline
       /\ StrLess(t.name, u.name)

C10_StatedKeyOrder ==
    Done =>
        \A t, u \in TaskSet :
            StatedKeyLess(t, u) =>
                \A i \in BlocksOf(t.name) : \A j \in BlocksOf(u.name) : i < j

(***************************************************************************)
(* C11.  When the task list is empty or total_minutes <= 0 the call        *)
(* returns the empty sequence, and it returns at once: nothing has been    *)
(* sorted and no task has been taken, whatever the other arguments are.    *)
(***************************************************************************)
C11_EmptyResult ==
    (Done /\ (tasks = <<>> \/ total_minutes <= 0)) =>
        /\ schedule = <<>>
        /\ tasks_sorted = <<>>
        /\ task_index = 0

\* The call has returned for a negative window with tasks and busy
\* intervals present.
C11_Witness ==
    /\ Done
    /\ total_minutes < 0
    /\ Len(tasks) = MaxTasks
    /\ busy_blocks # <<>>

(***************************************************************************)
(* C12.  Every work block lasts at least one minute and at most            *)
(* work_block_max minutes, and every block ends after it starts.           *)
(***************************************************************************)
C12_WorkBlockLength ==
    \A i \in 1..Len(schedule) :
        /\ schedule[i][2] > schedule[i][1]
        /\ IsWork(schedule[i]) =>
              /\ schedule[i][2] - schedule[i][1] >= Minutes(1)
              /\ schedule[i][2] - schedule[i][1] <= Minutes(work_block_max)

\* A returned schedule with a work block of exactly work_block_max minutes
\* and a work block of exactly one minute.
C12_Witness ==
    /\ Done
    /\ \E i, j \in 1..Len(schedule) :
          /\ IsWork(schedule[i])
          /\ IsWork(schedule[j])
          /\ schedule[i][2] - schedule[i][1] = Minutes(work_block_max)
          /\ schedule[j][2] - schedule[j][1] = Minutes(1)
          /\ work_block_max > 1

(***************************************************************************)
(* C14.  No step of build_schedule changes an argument: the caller's task  *)
(* list keeps its order and its tasks their fields, the busy list and the  *)
(* scalar arguments stay as passed; sorting, the cursor and the remaining  *)
(* duration live in locals.                                                *)
(***************************************************************************)
C14_ArgumentsUnchanged ==
    [][/\ tasks' = tasks
       /\ busy_blocks' = busy_blocks
       /\ start_time' = start_time
       /\ total_minutes' = total_minutes
       /\ work_block_max' = work_block_max
       /\ break_minutes' = break_minutes]_vars

\* The call has returned after sorting reordered the tasks and a task was
\* scheduled in full (its remaining duration ran down to zero), with busy
\* intervals present.
C14_Witness ==
    /\ Done
    /\ tasks_sorted # <<>>
    /\ tasks_sorted # tasks
    /\ busy_blocks # <<>>
    /\ remaining = 0
    /\ \E t \in TaskSet :
          TicksOf(BlocksOf(t.name)) = Minutes(t.duration_min)

(***************************************************************************)
(* C15.  Scenario 2: one task of 30 minutes, window 30 minutes,            *)
(* work_block_max 50, no busy intervals: the result is the one work block  *)
(* [start_time, start_time + 30 min) and no Break.                         *)
(***************************************************************************)
C15_Scenario2 ==
    (Done /\ IsCall(Scenario2Call)) =>
        schedule = << <<start_time, start_time + Minutes(30), NameA>> >>

\* The call of scenario 2 has returned with the task fully scheduled.
C15_Witness ==
    /\ Done
    /\ IsCall(Scenario2Call)
    /\ remaining = 0
    /\ current_time = window_end

(***************************************************************************)
(* C16.  Break insertion.  Whenever the schedule grows, it grows by one    *)
(* work block, followed by a Break if and only if the task still has       *)
(* remaining duration and more than break_minutes are left from the end of *)
(* the work block to the end of the window; the Break starts at the end of *)
(* the work block and lasts exactly break_minutes.  Hence every Break      *)
(* directly follows a work block: the schedule never starts with a Break   *)
(* and never has two Breaks in a row.                                      *)
(***************************************************************************)
C16_BreakRule ==
    Len(schedule') > Len(schedule) =>
        LET n == Len(schedule)
            w == schedule'[n + 1]
            has == /\ remaining' > 0
                   /\ window_end - w[2] > Minutes(break_minutes)
        IN  /\ SubSeq(schedule', 1, n) = schedule
            /\ IsWork(w)
            /\ Len(schedule') = IF has THEN n + 2 ELSE n + 1
            /\ has => schedule'[n + 2] =
                          <<w[2], w[2] + Minutes(break_minutes), BreakLabel>>

C16_BreakPlacement ==
    \A i \in 1..Len(schedule) :
        IsBreak(schedule[i]) =>
            /\ i > 1
            /\ IsWork(schedule[i - 1])
            /\ schedule[i][1] = schedule[i - 1][2]
            /\ schedule[i][2] = schedule[i][1] + Minutes(break_minutes)

C16_BreakInsertion == [][C16_BreakRule]_vars /\ []C16_BreakPlacement

\* A returned schedule with a Break, and with a work block after which
\* exactly break_minutes of window were left for an unfinished task, so
\* that the next work block follows it without a Break.
C16_Witness ==
    /\ Done
    /\ \E i \in 1..Len(schedule) : IsBreak(schedule[i])
    /\ \E i \in 1..(Len(schedule) - 1) :
          /\ IsWork(schedule[i])
          /\ IsWork(schedule[i + 1])
          /\ schedule[i][3] = schedule[i + 1][3]
          /\ window_end - schedule[i][2] = Minutes(break_minutes)

(***************************************************************************)
(* C17.  Conflict step.  When the tentative work block overlaps a busy     *)
(* interval, the step appends no block and leaves the remaining duration   *)
(* as it is; the cursor moves to the end of a busy interval that covers it *)
(* when there is one, and otherwise forward by exactly five minutes.  No   *)
(* step moves the cursor backward.                                         *)
(***************************************************************************)
TentativeConflict ==
    /\ pc = "while"
    /\ WhileCond
    /\ block_len > 0
    /\ \E k \in 1..Len(busy_blocks) :
          Intersect(current_time, work_end,
                    busy_blocks[k][1], busy_blocks[k][2])

CursorCovered ==
    \E k \in 1..Len(busy_blocks) :
        busy_blocks[k][1] <= current_time /\ current_time < busy_blocks[k][2]

C17_ConflictRule ==
    (TentativeConflict /\ vars' # vars) =>
        /\ schedule' = schedule
        /\ remaining' = remaining
        /\ pc' = pc
        /\ IF CursorCovered
           THEN \E k \in 1..Len(busy_blocks) :
                   /\ busy_blocks[k][1] <= current_time
                   /\ current_time < busy_blocks[k][2]
                   /\ current_time' = busy_blocks[k][2]
           ELSE current_time' = current_time + Minutes(ProbeMinutes)

C17_ConflictStep ==
    [][C17_ConflictRule /\ current_time' >= current_time]_vars

\* The five minute probe has acted and then a busy interval was jumped: no
\* busy interval covers start_time, nothing is scheduled yet, and the cursor
\* stands more than five minutes after start_time, exactly at the end of a
\* busy interval.
C17_Witness ==
    /\ pc = "while"
    /\ schedule = <<>>
    /\ \A k \in 1..Len(busy_blocks) :
          ~(busy_blocks[k][1] <= start_time /\ start_time < busy_blocks[k][2])
    /\ current_time > start_time + Minutes(ProbeMinutes)
    /\ \E k \in 1..Len(busy_blocks) : current_time = busy_blocks[k][2]

(***************************************************************************)
(* C18.  Block length.  In every iteration of the allocation loop let m be *)
(* the minimum of work_block_max, the task's remaining duration and the    *)
(* whole minutes left from the cursor to the end of the window.  If        *)
(* m <= 0 the call returns the schedule as it is.  Otherwise a work block  *)
(* that is committed starts at the cursor and lasts exactly m minutes, and *)
(* no block is committed only when the block of m minutes overlaps a busy  *)
(* interval: a block is never shortened to fit the gap before one.         *)
(***************************************************************************)
StatedMinutes ==
    LET whole == (window_end - current_time) \div TicksPerMinute
        S == {work_block_max, remaining, whole}
    IN  CHOOSE m \in S : \A x \in S : m <= x

C18_LengthRule ==
    (pc = "while" /\ WhileCond /\ vars' # vars) =>
        IF StatedMinutes <= 0
        THEN pc' = "done" /\ schedule' = schedule
        ELSE IF schedule' # schedule
        THEN LET w == schedule'[Len(schedule) + 1]
             IN  /\ w[1] = current_time
                 /\ w[2] = current_time + Minutes(StatedMinutes)
        ELSE \E k \in 1..Len(busy_blocks) :
                Intersect(current_time,
                          current_time + Minutes(StatedMinutes),
                          busy_blocks[k][1], busy_blocks[k][2])

C18_BlockLength == [][C18_LengthRule]_vars

\* A returned schedule with a work block that was cut to the whole minutes
\* of a window remainder that is not a whole number of minutes (the cursor
\* left a busy interval off the minute), and is shorter than
\* work_block_max.
C18_Witness ==
    /\ Done
    /\ \E i \in 1..Len(schedule) :
          /\ IsWork(schedule[i])
          /\ (window_end - schedule[i][1]) % TicksPerMinute # 0
          /\ schedule[i][2] - schedule[i][1] =
                Minutes((window_end - schedule[i][1]) \div TicksPerMinute)
          /\ schedule[i][2] - schedule[i][1] < Minutes(work_block_max)

(***************************************************************************)
(* C19.  Tasks are drained one at a time in the order of tasks_sorted:     *)
(* when a task has a work block, every task before it in that order is     *)
(* scheduled in full (its work blocks sum to its duration) and all of      *)
(* those blocks come before the task's first block.  Hence at most one     *)
(* task is partly scheduled and every task after it has no block.          *)
(***************************************************************************)
C19_DrainedInOrder ==
    \A i, j \in 1..Len(tasks_sorted) :
        (i < j /\ BlocksOf(tasks_sorted[j].name) # {}) =>
            /\ TicksOf(BlocksOf(tasks_sorted[i].name)) =
                   Minutes(tasks_sorted[i].duration_min)
            /\ \A a \in BlocksOf(tasks_sorted[i].name) :
                  \A b \in BlocksOf(tasks_sorted[j].name) : a < b

C19_AtMostOnePartial ==
    \A i, j \in 1..Len(tasks_sorted) :
        (/\ i < j
         /\ TicksOf(BlocksOf(tasks_sorted[i].name)) <
                Minutes(tasks_sorted[i].duration_min))
            => BlocksOf(tasks_sorted[j].name) = {}

C19_FixedOrderDrain == C19_DrainedInOrder /\ C19_AtMostOnePartial

\* A returned schedule in which busy intervals delayed the first task of
\* the order, which is complete in several blocks, and the second task is
\* only partly scheduled.
C19_Witness ==
    /\ Done
    /\ busy_blocks # <<>>
    /\ Len(tasks_sorted) >= 2
    /\ schedule # <<>>
    /\ schedule[1][1] > start_time
    /\ Cardinality(BlocksOf(tasks_sorted[1].name)) >= 2
    /\ BlocksOf(tasks_sorted[2].name) # {}
    /\ TicksOf(BlocksOf(tasks_sorted[2].name)) <
          Minutes(tasks_sorted[2].duration_min)

(***************************************************************************)
(* C20.  With an empty list of busy intervals and a non-empty schedule,    *)
(* the first block starts exactly at start_time and every later block      *)
(* starts exactly where the block before it ends: no idle gaps.            *)
(***************************************************************************)
C20_NoIdleGaps ==
    (busy_blocks = <<>> /\ schedule # <<>>) =>
        /\ schedule[1][1] = start_time
        /\ \A i \in 1..(Len(schedule) - 1) :
              schedule[i + 1][1] = schedule[i][2]

\* A returned schedule without busy intervals that holds a break and the
\* blocks of two tasks, the second one starting right after a block that
\* no break follows.
C20_Witness ==
    /\ Done
    /\ busy_blocks = <<>>
    /\ Len(schedule) >= 4
    /\ \E i \in 1..Len(schedule) : IsBreak(schedule[i])
    /\ \E i \in 1..(Len(schedule) - 1) :
          /\ IsWork(schedule[i])
          /\ IsWork(schedule[i + 1])
          /\ schedule[i][3] # schedule[i + 1][3]
          /\ schedule[i + 1][1] = schedule[i][2]

(***************************************************************************)
(* C21.  Breaks are appended without a test against the busy intervals:    *)
(* when a work block is committed, the task has remaining duration and     *)
(* more than break_minutes of window are left, the Break is appended even  *)
(* where it intersects a busy interval.  So a block of the schedule that   *)
(* intersects a busy interval is always a Break, never a work block, and   *)
(* such Breaks do occur (C21_Witness).                                     *)
(***************************************************************************)
BreakHitsBusy(from) ==
    \E k \in 1..Len(busy_blocks) :
        Intersect(from, from + Minutes(break_minutes),
                  busy_blocks[k][1], busy_blocks[k][2])

C21_UncheckedBreak ==
    (/\ Len(schedule') > Len(schedule)
     /\ remaining' > 0
     /\ window_end - schedule'[Len(schedule) + 1][2] > Minutes(break_minutes)
     /\ BreakHitsBusy(schedule'[Len(schedule) + 1][2]))
        => /\ Len(schedule') = Len(schedule) + 2
           /\ IsBreak(schedule'[Len(schedule) + 2])
           /\ BreakHitsBusy(schedule'[Len(schedule) + 2][1])

C21_OnlyBreaksHitBusy ==
    \A i \in 1..Len(schedule) :
        (\E k \in 1..Len(busy_blocks) :
            Intersect(schedule[i][1], schedule[i][2],
                      busy_blocks[k][1], busy_blocks[k][2]))
            => IsBreak(schedule[i])

C21_BreakIgnoresBusy == [][C21_UncheckedBreak]_vars /\ []C21_OnlyBreaksHitBusy

\* A returned schedule with a Break that intersects a busy interval, and a
\* later work block placed after that busy interval.
C21_Witness ==
    /\ Done
    /\ \E i \in 1..(Len(schedule) - 1) : \E k \in 1..Len(busy_blocks) :
          /\ IsBreak(schedule[i])
          /\ Intersect(schedule[i][1], schedule[i][2],
                       busy_blocks[k][1], busy_blocks[k][2])
          /\ IsWork(schedule[i + 1])
          /\ schedule[i + 1][1] >= busy_blocks[k][2]

(***************************************************************************)
(* C22.  The result does not depend on the order of the task list: when no *)
(* two tasks of the list have the same (priority, deadline, name), every   *)
(* permutation of the list gives the block sequence that the call returns. *)
(***************************************************************************)
Permutations(ts) ==
    LET n == Len(ts)
        Bij == { f \in [1..n -> 1..n] :
                    \A a, b \in 1..n : a # b => f[a] # f[b] }
    IN  { [i \in 1..n |-> ts[f[i]]] : f \in Bij }

Triple(t) == <<t.priority, t.deadline, t.name>>

DistinctTriples(ts) ==
    \A i, j \in 1..Len(ts) : i # j => Triple(ts[i]) # Triple(ts[j])

C22_PermutationInvariant ==
    (Done /\ DistinctTriples(tasks)) =>
        \A p \in Permutations(tasks) : build_schedule(p) = schedule

(***************************************************************************)
(* C23.  run_pomodoro with cycles >= 1 and positive work and break         *)
(* minutes.  Intervals run one at a time and alternate, starting with      *)
(* work: the k-th interval is a work interval when k is odd and a break    *)
(* when k is even, and there are at most 2 * cycles - 1 of them, so that   *)
(* no break follows the last cycle.  A run that was not interrupted has    *)
(* run them all and reports cycles_completed = cycles,                     *)
(* total_work_seconds = cycles * work_minutes * 60 and                     *)
(* total_break_seconds = (cycles - 1) * break_minutes * 60.  At any time,  *)
(* and so in the result of an interrupted run, cycles_completed counts     *)
(* only cycles whose work interval and break, if it has one, have both     *)
(* finished.                                                               *)
(***************************************************************************)
TimerDone == timer_pc = "done"

WasInterrupted == \E k \in 1..Len(output) : output[k] = Interrupted

PositiveConfig ==
    /\ config.cycles >= 1
    /\ config.work_minutes > 0
    /\ config.break_minutes > 0

IsHeader(e) == e.kind = "header"

IsFinished(e) == e.kind = "finished"

\* The cycles all of whose intervals have finished.
FinishedCycles ==
    LET f == Len(SelectSeq(output, IsFinished))
    IN  IF f >= 2 * config.cycles - 1 THEN config.cycles ELSE f \div 2

C23_Alternation ==
    LET h == SelectSeq(output, IsHeader)
    IN  /\ Len(h) <= 2 * config.cycles - 1
        /\ \A k \in 1..Len(h) :
              h[k].label = IF k % 2 = 1 THEN WorkLabel ELSE BreakLabel
        /\ \A k \in 1..Len(output) :
              /\ IsFinished(output[k]) =>
                    k > 1 /\ output[k - 1] = Header(output[k].label)
              /\ (IsHeader(output[k]) /\ k > 1) => IsFinished(output[k - 1])

C23_Uninterrupted ==
    (TimerDone /\ ~WasInterrupted) =>
        /\ Len(SelectSeq(output, IsFinished)) = 2 * config.cycles - 1
        /\ cycles_completed = config.cycles
        /\ total_work =
              config.cycles * config.work_minutes * SecondsPerMinute
        /\ total_break =
              (config.cycles - 1) * config.break_minutes * SecondsPerMinute

C23_CountsFinishedCycles == cycles_completed <= FinishedCycles

C23_Pomodoro ==
    PositiveConfig =>
        /\ C23_Alternation
        /\ C23_Uninterrupted
        /\ C23_CountsFinishedCycles

\* A run of several cycles with positive work and break minutes that was
\* not interrupted and has returned, with breaks taken.
C23_Witness ==
    /\ TimerDone
    /\ ~WasInterrupted
    /\ PositiveConfig
    /\ config.cycles >= 2
    /\ config.work_minutes # config.break_minutes
    /\ total_break > 0

====
